---- MODULE Spec2Model ----
(***************************************************************************)
(* The marketplace MCP server of src/src/marketplace.py: the search        *)
(* aggregation (_search), the two process-wide caches it fills, and the    *)
(* link and description tools that read them.                              *)
(*                                                                         *)
(* Python values are modelled as follows.  A text whose whitespace matters *)
(* (title, description, query) is a sequence of one-character strings.     *)
(* Ids, slugs, tokens and versions are strings; the empty string is "".    *)
(* Python's None is the string None.  A text returned by a tool is a       *)
(* record naming the f-string that built it and the values put into it.    *)
(***************************************************************************)
EXTENDS Integers, Sequences, FiniteSets, TLC

\* Bounds of the model (not program constants).
MaxItems == 2        \* raw items the API delivers over one behaviour
MaxRequests == 3     \* page requests answered with a body over one behaviour
MaxPages == 2        \* largest configured SEARCH_PAGES_TO_FETCH
ToolItems == 2       \* as MaxItems, where link and description are called too
ToolRequests == 2    \* as MaxRequests, where link and description are called too
OverlapItems == 2    \* as MaxItems, where two search calls overlap
OverlapRequests == 2 \* as MaxRequests, where two search calls overlap
LiveItems == 1       \* as MaxItems, where every request is answered in the end
LiveRequests == 2    \* as MaxRequests, where every request is answered in the end

None == "None"
ORGANIC == "organic_search_results"
FALLBACK_VERSION == "814910"
ITEM_BASE == "https://es.wallapop.com/item/"

\* The _search coroutines that can be alive at once.
Calls == {1, 2}

----------------------------------------------------------------------------
\* Text helpers: str.strip(), " ".join(s.split()).

IsSpace(ch) == ch = " "

RECURSIVE LStrip(_)
LStrip(s) == IF s = <<>> THEN s
             ELSE IF IsSpace(Head(s)) THEN LStrip(Tail(s)) ELSE s

RECURSIVE RStrip(_)
RStrip(s) == IF s = <<>> THEN s
             ELSE IF IsSpace(s[Len(s)]) THEN RStrip(SubSeq(s, 1, Len(s) - 1)) ELSE s

Strip(s) == RStrip(LStrip(s))

RECURSIVE Collapse(_)
Collapse(s) == IF s = <<>> THEN s
               ELSE IF IsSpace(Head(s))
                    THEN <<" ">> \o Collapse(LStrip(s))
                    ELSE <<Head(s)>> \o Collapse(Tail(s))

\* " ".join(s.split())
SplitJoin(s) == Collapse(Strip(s))

Range(s) == {s[i] : i \in 1..Len(s)}

\* dict[k] = v
Put(d, k, v) == [x \in DOMAIN d \cup {k} |-> IF x = k THEN v ELSE d[x]]

EmptyDict == [x \in {} |-> None]

\* dict.get(k) with None for a missing key
Get(d, k) == IF k \in DOMAIN d THEN d[k] ELSE None

----------------------------------------------------------------------------
\* src/src/models.py: MarketplaceItem and its defaults.

NO_TITLE == <<"N", "o", " ", "t", "i", "t", "l", "e">>

ItemDefaults ==
    [title |-> NO_TITLE, id |-> "", web_slug |-> "", description |-> <<>>,
     reserved |-> FALSE, price |-> None]

\* A raw JSON object of the API: the fields it carries (obj) and whether every
\* one of them has the type the model declares (typed).
Raw(obj, typed) == [obj |-> obj, typed |-> typed]

ModelValidateFails(raw) == ~raw.typed

\* MarketplaceItem.model_validate: absent fields take their defaults.
model_validate(raw) ==
    [f \in DOMAIN ItemDefaults |->
        IF f \in DOMAIN raw.obj THEN raw.obj[f] ELSE ItemDefaults[f]]

\* The raw objects the modelled API can deliver.
RawItems ==
    { Raw([id |-> "1", title |-> <<"A", " ", " ", "B">>, web_slug |-> "s1",
           description |-> <<"x">>, price |-> "10.0"], TRUE),
      Raw([id |-> "1", title |-> <<"C">>, web_slug |-> "s2",
           description |-> <<" ", "y", " ">>, reserved |-> TRUE], TRUE),
      Raw([id |-> "1", title |-> <<"C">>, price |-> "10.0"], TRUE),
      Raw([id |-> "2", web_slug |-> "s3", description |-> <<" ">>], TRUE),
      Raw([web_slug |-> "s4", description |-> <<"z">>], TRUE),
      Raw([id |-> "2", web_slug |-> "s5", description |-> <<"w">>], FALSE) }

SeqsUpTo(S, n) == UNION {[1..k -> S] : k \in 0..n}

Ids == {"1", "2", "3"}

Tokens == {None, "t1", "t2"}
Sections == {ORGANIC, "other"}
Versions == {FALLBACK_VERSION, "81500"}

\* An element of a query list: a str with its text, or a value of another type.
Str(s) == [isStr |-> TRUE, s |-> s]
NotStr == [isStr |-> FALSE, s |-> <<>>]

\* The query arguments given to search: a single str (as src/test.py passes)
\* or a list; blank and empty texts, values that are no str, a repeated query.
QueryInputs ==
    {[isStr |-> TRUE, s |-> t, list |-> <<>>] : t \in {<<"a">>, <<" ">>, <<>>}}
    \cup {[isStr |-> FALSE, s |-> <<>>, list |-> l] :
            l \in { <<>>,
                    <<Str(<<" ">>), NotStr>>,
                    <<Str(<<" ">>), Str(<<"a">>), NotStr, Str(<<"b">>)>>,
                    <<Str(<<"a">>), Str(<<"a">>)>>,
                    <<Str(<<"a">>), Str(<<"b">>), Str(<<"a">>)>> }}

\* The item_ids argument of link and description: a list of ids, or a value
\* that is no list (None: falsy; a bare str: truthy).
IdInputs ==
    {[isList |-> TRUE, truthy |-> l # <<>>, ids |-> l] :
        l \in {<<>>, <<"1", "2">>}}
    \cup {[isList |-> FALSE, truthy |-> t, ids |-> <<>>] : t \in {TRUE}}

----------------------------------------------------------------------------
VARIABLES
    INCLUDE_DESCRIPTION_IN_SEARCH,  \* fixed by run() at process start
    SEARCH_PAGES_TO_FETCH,          \* fixed by run() at process start
    APP_VERSION,
    ITEM_WEB_SLUG_CACHE,
    ITEM_DESCRIPTION_CACHE,
    call,            \* the frame of each _search coroutine
    toolOut,         \* what the last link/description call returned
    history,         \* every validated item, in the order it was processed
    versionFetches,  \* get_app_version calls issued
    rawCount,        \* raw items delivered so far
    bodies,          \* page requests answered with a body so far
    env              \* what the environment does in this behaviour: the bodies and
                     \* raw items it delivers at most, the versions and tokens
                     \* it serves, the calls the host starts and whether it
                     \* starts one while another is suspended

vars == <<INCLUDE_DESCRIPTION_IN_SEARCH, SEARCH_PAGES_TO_FETCH, APP_VERSION,
          ITEM_WEB_SLUG_CACHE, ITEM_DESCRIPTION_CACHE, call, toolOut, history,
          versionFetches, rawCount, bodies, env>>

config == <<INCLUDE_DESCRIPTION_IN_SEARCH, SEARCH_PAGES_TO_FETCH, env>>
caches == <<ITEM_WEB_SLUG_CACHE, ITEM_DESCRIPTION_CACHE>>
counters == <<versionFetches, rawCount, bodies>>

\* A returned text: which f-string built it, and the values put into it.
Text(kind, status, text, queries, blocks) ==
    [kind |-> kind, status |-> status, text |-> text, queries |-> queries,
     blocks |-> blocks]

NoText == Text("none", "", "", <<>>, <<>>)

IdleCall ==
    [pc |-> "idle", queries |-> <<>>, appversion |-> None, current |-> 0,
     page_number |-> 0, api_next_page |-> None, next_section_type |-> ORGANIC,
     items_by_query |-> EmptyDict, deduped_items |-> EmptyDict,
     result |-> NoText, log |-> <<>>, processed |-> <<>>]  \* log: one record per client.get issued

NoTool == [op |-> "none", arg |-> [isList |-> FALSE, truthy |-> FALSE, ids |-> <<>>],
           kind |-> "none", lines |-> <<>>]

Start ==
    /\ INCLUDE_DESCRIPTION_IN_SEARCH \in BOOLEAN
    /\ SEARCH_PAGES_TO_FETCH \in 0..MaxPages
    /\ APP_VERSION = None
    /\ ITEM_WEB_SLUG_CACHE = EmptyDict
    /\ ITEM_DESCRIPTION_CACHE = EmptyDict
    /\ call = [c \in Calls |-> IdleCall]
    /\ toolOut = NoTool
    /\ history = <<>>
    /\ versionFetches = 0
    /\ rawCount = 0
    /\ bodies = 0

Init ==
    /\ Start
    /\ env = [requests |-> MaxRequests, items |-> MaxItems,
              versions |-> {FALLBACK_VERSION}, tokens |-> {None, "t1"},
              raws |-> RawItems, inputs |-> QueryInputs,
              calls |-> {1}, overlap |-> FALSE]

InitTools ==
    /\ Start
    /\ env = [requests |-> ToolRequests, items |-> ToolItems,
              versions |-> {FALLBACK_VERSION}, tokens |-> {None, "t1"},
              raws |-> RawItems, inputs |-> QueryInputs,
              calls |-> {1}, overlap |-> FALSE]

----------------------------------------------------------------------------
\* _search: input validation (lines 139-150).

RECURSIVE FilterQueries(_)
\* [q for q in query if isinstance(q, str) and q.strip()]
FilterQueries(l) ==
    IF l = <<>> THEN <<>>
    ELSE IF Head(l).isStr /\ Strip(Head(l).s) # <<>>
         THEN <<Head(l).s>> \o FilterQueries(Tail(l))
         ELSE FilterQueries(Tail(l))

\* queries = [query] if isinstance(query, str) else the filtered list
UsableQueries(query) ==
    IF query.isStr THEN <<query.s>> ELSE FilterQueries(query.list)

Truthy(token) == token # None /\ token # ""

----------------------------------------------------------------------------
\* _search: one page's items (lines 228-243).

\* Mutant of CacheSlug: an id that has a slug keeps it (first write wins).
CacheSlug_FirstWins(cache, item) ==
    IF item.id # "" /\ item.web_slug # "" /\ item.id \notin DOMAIN cache
    THEN Put(cache, item.id, item.web_slug) ELSE cache

\* Mutant of CacheSlug: a reserved item is not cached.
CacheSlug_SkipReserved(cache, item) ==
    IF item.id # "" /\ item.web_slug # "" /\ ~item.reserved
    THEN Put(cache, item.id, item.web_slug) ELSE cache

\* ITEM_WEB_SLUG_CACHE[item.id] = item.web_slug, under its two guards
CacheSlug(cache, item) ==
    IF item.id # "" /\ item.web_slug # ""
    THEN Put(cache, item.id, item.web_slug) ELSE cache

\* Mutant of CacheDescription: an item without a description evicts the entry
\* of its id.
CacheDescription_Evict(cache, item) ==
    IF item.id # "" /\ item.description # <<>>
    THEN Put(cache, item.id, item.description)
    ELSE [x \in DOMAIN cache \ {item.id} |-> cache[x]]

\* ITEM_DESCRIPTION_CACHE[item.id] = item.description, under its two guards
CacheDescription(cache, item) ==
    IF item.id # "" /\ item.description # <<>>
    THEN Put(cache, item.id, item.description) ELSE cache

\* Mutant of SetDefault: deduped_items[item.id] = item, the last sighting wins.
SetDefault_Overwrite(deduped, item) ==
    IF item.id = "" THEN deduped ELSE Put(deduped, item.id, item)

\* Mutant of SetDefault: the test of item.id is left out.
SetDefault_AnyId(deduped, item) ==
    IF item.id \in DOMAIN deduped THEN deduped ELSE Put(deduped, item.id, item)

\* deduped_items.setdefault(item.id, item)
SetDefault(deduped, item) ==
    IF item.id = "" \/ item.id \in DOMAIN deduped
    THEN deduped ELSE Put(deduped, item.id, item)

\* The body of `for raw_item in items` on the running state acc.
ProcessItem(raw, acc) ==
    IF ModelValidateFails(raw) THEN acc
    ELSE LET item == model_validate(raw) IN
         [slugs |-> CacheSlug(acc.slugs, item),
          descs |-> CacheDescription(acc.descs, item),
          collected |-> Append(acc.collected, item),
          deduped |-> SetDefault(acc.deduped, item),
          seen |-> Append(acc.seen, item)]

RECURSIVE ProcessItems_StopAtInvalid(_, _)
\* Mutant of ProcessItems: an object that fails validation ends the batch.
ProcessItems_StopAtInvalid(raws, acc) ==
    IF raws = <<>> \/ ModelValidateFails(Head(raws)) THEN acc
    ELSE ProcessItems_StopAtInvalid(Tail(raws), ProcessItem(Head(raws), acc))

RECURSIVE ProcessItems(_, _)
\* for raw_item in items
ProcessItems(raws, acc) ==
    IF raws = <<>> THEN acc
    ELSE ProcessItems(Tail(raws), ProcessItem(Head(raws), acc))

----------------------------------------------------------------------------
\* _search: the final ordering and rendering (lines 171-176, 295-324).

RECURSIVE IterItemsInOrder(_, _)
\* for q in queries: for item in items_by_query.get(q, []): yield item
IterItemsInOrder(queries, items_by_query) ==
    IF queries = <<>> THEN <<>>
    ELSE (IF Head(queries) \in DOMAIN items_by_query
          THEN items_by_query[Head(queries)] ELSE <<>>)
         \o IterItemsInOrder(Tail(queries), items_by_query)

RECURSIVE OrderedUnique_NoSeen(_, _, _)
\* Mutant of OrderedUnique: the seen_ids test is left out.
OrderedUnique_NoSeen(items, seen_ids, deduped) ==
    IF items = <<>> THEN <<>>
    ELSE LET item == Head(items) IN
         IF item.id = ""
         THEN OrderedUnique_NoSeen(Tail(items), seen_ids, deduped)
         ELSE <<deduped[item.id]>>
              \o OrderedUnique_NoSeen(Tail(items), seen_ids, deduped)

RECURSIVE OrderedUnique(_, _, _)
\* the loop of lines 297-303, seen_ids being the ids met so far
OrderedUnique(items, seen_ids, deduped) ==
    IF items = <<>> THEN <<>>
    ELSE LET item == Head(items) IN
         IF item.id = "" \/ item.id \in seen_ids
         THEN OrderedUnique(Tail(items), seen_ids, deduped)
         ELSE <<deduped[item.id]>>
              \o OrderedUnique(Tail(items), seen_ids \cup {item.id}, deduped)

\* format_item_markdown: <<>> for None, else the one block; a block's lines
\* are its first line (id, title, price) and the optional description line.
format_item_markdown(item) ==
    IF item.reserved = TRUE THEN <<>>
    ELSE <<[id |-> item.id,
            title |-> SplitJoin(item.title),
            price |-> IF item.price # None THEN item.price ELSE "N/A",
            more |-> IF INCLUDE_DESCRIPTION_IN_SEARCH /\ item.description # <<>>
                     THEN <<SplitJoin(item.description)>> ELSE <<>>]>>

RECURSIVE Blocks(_)
\* the loop of lines 305-310
Blocks(items) ==
    IF items = <<>> THEN <<>>
    ELSE format_item_markdown(Head(items)) \o Blocks(Tail(items))

\* Mutant of Render: the no-results text is chosen on the list of unique
\* items, before the reserved ones are left out.
Render_EmptyList(cl) ==
    LET ordered_unique_items ==
            OrderedUnique(IterItemsInOrder(cl.queries, cl.items_by_query), {},
                          cl.deduped_items)
        blocks == Blocks(ordered_unique_items)
    IN IF ordered_unique_items = <<>>
       THEN Text("no_results", "", "", cl.queries, <<>>)
       ELSE Text("items", "", "", <<>>, blocks)

\* The text _search returns once every query is done.
Render(cl) ==
    LET ordered_unique_items ==
            OrderedUnique(IterItemsInOrder(cl.queries, cl.items_by_query), {},
                          cl.deduped_items)
        blocks == Blocks(ordered_unique_items)
    IN IF blocks = <<>> THEN Text("no_results", "", "", cl.queries, <<>>)
       ELSE Text("items", "", "", <<>>, blocks)

----------------------------------------------------------------------------
\* _search: the pagination loop (lines 184-202, 245-262, 277).

Request(cl, q, page, token) ==
    [query |-> q, page |-> page, next_page |-> token, appversion |-> cl.appversion,
     outcome |-> "pending", items |-> <<>>, meta_next_page |-> None,
     meta_section |-> None, status |-> "", text |-> ""]

\* Mutant of StartQuery: api_next_page is not reset, and page 1 sends it.
StartQuery_KeepToken(cl, q) ==
    [cl EXCEPT !.pc = "fetch", !.current = q, !.page_number = 1,
               !.next_section_type = ORGANIC,
               !.log = Append(@, Request(cl, q, 1, cl.api_next_page))]

\* client.get for page 1 of query number q: fresh token and sentinel.
StartQuery(cl, q) ==
    [cl EXCEPT !.pc = "fetch", !.current = q, !.page_number = 1,
               !.api_next_page = None, !.next_section_type = ORGANIC,
               !.log = Append(@, Request(cl, q, 1, None))]

\* client.get for the next page of the current query.
NextPage(cl) ==
    [cl EXCEPT !.page_number = @ + 1,
               !.log = Append(@, Request(cl, cl.current, cl.page_number + 1,
                                         cl.api_next_page))]

\* Mutant of SectionStops: the sentinel is never looked at.
SectionStops_Never(section) == FALSE

\* if next_section_type != "organic_search_results": break
SectionStops(section) == section # ORGANIC

\* Mutant of MorePages: pages are requested as long as the API gives a token.
MorePages_NoCap(cl) ==
    /\ ~SectionStops(cl.next_section_type)
    /\ Truthy(cl.api_next_page)

\* Whether the for loop requests another page of the current query.
MorePages(cl) ==
    /\ ~SectionStops(cl.next_section_type)
    /\ cl.page_number + 1 <= SEARCH_PAGES_TO_FETCH
    /\ Truthy(cl.api_next_page)

\* return text: the frame's locals are gone, the records of the call stay.
Finish(cl, text) ==
    [IdleCall EXCEPT !.pc = "done", !.result = text, !.queries = cl.queries,
                     !.log = cl.log, !.processed = cl.processed]

\* What follows a page's processing, up to the next await or the return.
\* The current query's loop is over: the next query, or the rendering.
EndOfQuery(cl) ==
    IF cl.current < Len(cl.queries) THEN StartQuery(cl, cl.current + 1)
    ELSE Finish(cl, Render(cl))

\* Mutant of AfterPage: a sentinel that stops the query stops the call, which
\* renders what it has.
AfterPage_StopAll(cl) ==
    IF SectionStops(cl.next_section_type) THEN Finish(cl, Render(cl))
    ELSE IF MorePages(cl) THEN NextPage(cl) ELSE EndOfQuery(cl)

\* What follows a page's processing, up to the next await or the return.
AfterPage(cl) == IF MorePages(cl) THEN NextPage(cl) ELSE EndOfQuery(cl)

\* The record of the pending request, completed with what came back.
Answered(cl, outcome, next_page, section, status, text) ==
    [cl EXCEPT !.log[Len(cl.log)] =
        [@ EXCEPT !.outcome = outcome, !.meta_next_page = next_page,
                  !.meta_section = section, !.status = status, !.text = text]]

\* Mutant of OnStatusError: the failure is logged and the call goes on with
\* its next query, rendering what it has collected.
OnStatusError_GoOn(cl, status, text) ==
    EndOfQuery(Answered(cl, "status", None, None, status, text))

\* except httpx.HTTPStatusError: return the API Error text (lines 264-272)
OnStatusError(cl, status, text) ==
    Finish(Answered(cl, "status", None, None, status, text),
           Text("api_error", status, text, <<>>, <<>>))

\* except Exception: return the generic error text (lines 273-275)
OnOtherError(cl, message) ==
    Finish(Answered(cl, "error", None, None, "", message),
           Text("error", "", message, <<>>, <<>>))

----------------------------------------------------------------------------
\* The tools.

Busy(c) == call[c].pc \in {"version", "fetch"}

\* search(query), up to its first await or its return (lines 138-166).
search(c, query) ==
    /\ c \in env.calls
    /\ query \in env.inputs
    /\ ~Busy(c)
    /\ IF env.overlap THEN call[c] = IdleCall ELSE \A d \in Calls : ~Busy(d)
    /\ LET queries == UsableQueries(query)
           fresh == [IdleCall EXCEPT !.queries = queries,
                        !.items_by_query = [q \in Range(queries) |-> <<>>]]
       IN IF SEARCH_PAGES_TO_FETCH < 1
          THEN /\ call' = [call EXCEPT ![c] =
                     Finish(IdleCall, Text("invalid_pages", "", "", <<>>, <<>>))]
               /\ UNCHANGED <<APP_VERSION, counters>>
          ELSE IF queries = <<>>
          THEN /\ call' = [call EXCEPT ![c] =
                     Finish(IdleCall, Text("invalid_query", "", "", <<>>, <<>>))]
               /\ UNCHANGED <<APP_VERSION, counters>>
          ELSE /\ bodies < env.requests
               /\ IF APP_VERSION = None
                  THEN /\ call' = [call EXCEPT ![c] = [fresh EXCEPT !.pc = "version"]]
                       /\ versionFetches' = versionFetches + 1
                       /\ UNCHANGED <<APP_VERSION, rawCount, bodies>>
                  ELSE /\ call' = [call EXCEPT ![c] =
                             StartQuery([fresh EXCEPT !.appversion = APP_VERSION], 1)]
                       /\ UNCHANGED <<APP_VERSION, versionFetches, rawCount, bodies>>
    /\ toolOut' = NoTool
    /\ UNCHANGED <<config, caches, history>>

\* get_app_version returns to _search (lines 160-166), which requests page 1.
AppVersionReturns(c, version) ==
    /\ call[c].pc = "version"
    /\ version \in env.versions
    /\ APP_VERSION' = version
    /\ call' = [call EXCEPT ![c] = StartQuery([@ EXCEPT !.appversion = version], 1)]
    /\ toolOut' = NoTool
    /\ UNCHANGED <<config, caches, history, versionFetches, rawCount, bodies>>

\* run(): _prefetch_app_version, before the server takes any call (356-361).
PrefetchAppVersion(version) ==
    /\ APP_VERSION = None
    /\ version \in env.versions
    /\ \A c \in Calls : call[c] = IdleCall
    /\ toolOut = NoTool
    /\ versionFetches = 0
    /\ APP_VERSION' = version
    /\ versionFetches' = versionFetches + 1
    /\ UNCHANGED <<config, caches, call, toolOut, history, rawCount, bodies>>

\* Mutant of Processed: deduped_items is one dict shared by all calls.
Processed_SharedDedup(cl, items) ==
    ProcessItems(items,
        [slugs |-> ITEM_WEB_SLUG_CACHE,
         descs |-> ITEM_DESCRIPTION_CACHE,
         collected |-> cl.items_by_query[cl.queries[cl.current]],
         deduped |-> [id \in UNION {DOMAIN call[d].deduped_items : d \in Calls} |->
                        call[CHOOSE d \in Calls :
                                id \in DOMAIN call[d].deduped_items].deduped_items[id]],
         seen |-> <<>>])

\* The items of a page run through the loop of lines 228-243.
Processed(cl, items) ==
    ProcessItems(items,
        [slugs |-> ITEM_WEB_SLUG_CACHE,
         descs |-> ITEM_DESCRIPTION_CACHE,
         collected |-> cl.items_by_query[cl.queries[cl.current]],
         deduped |-> cl.deduped_items,
         seen |-> <<>>])

\* The frame once the page's items are processed.
Collected(cl, acc, items) ==
    [cl EXCEPT !.items_by_query = Put(@, cl.queries[cl.current], acc.collected),
               !.deduped_items = acc.deduped,
               !.log[Len(cl.log)].items = items,
               !.processed = @ \o [i \in 1..Len(acc.seen) |->
                                     [item |-> acc.seen[i], query |-> cl.current,
                                      page |-> cl.page_number]]]

\* client.get returns a decoded body (lines 213-262), and _search runs on to
\* its next await or to its return.
PageResponse(c, items, next_page, next_section_type) ==
    /\ call[c].pc = "fetch"
    /\ bodies < env.requests
    /\ rawCount + Len(items) <= env.items
    /\ next_page \in env.tokens
    /\ Range(items) \subseteq env.raws
    /\ LET cl == call[c]
           acc == Processed(cl, items)
           after == AfterPage(
                      [Answered(Collected(cl, acc, items), "ok", next_page,
                                next_section_type, "", "") EXCEPT
                         !.api_next_page = next_page,
                         !.next_section_type = next_section_type])
       IN /\ ITEM_WEB_SLUG_CACHE' = acc.slugs
          /\ ITEM_DESCRIPTION_CACHE' = acc.descs
          /\ history' = history \o acc.seen
          /\ call' = [call EXCEPT ![c] = after]
    /\ rawCount' = rawCount + Len(items)
    /\ bodies' = bodies + 1
    /\ toolOut' = NoTool
    /\ UNCHANGED <<config, APP_VERSION, versionFetches>>

\* client.get returns a body whose items are processed and whose "meta" is
\* no object: data.get("meta", {}).get raises, and except Exception returns
\* (lines 245, 273-275).
PageBadMeta(c, items, message) ==
    /\ call[c].pc = "fetch"
    /\ bodies < env.requests
    /\ rawCount + Len(items) <= env.items
    /\ Range(items) \subseteq env.raws
    /\ LET cl == call[c]
           acc == Processed(cl, items)
           after == OnOtherError(Collected(cl, acc, items), message)
       IN /\ ITEM_WEB_SLUG_CACHE' = acc.slugs
          /\ ITEM_DESCRIPTION_CACHE' = acc.descs
          /\ history' = history \o acc.seen
          /\ call' = [call EXCEPT ![c] = after]
    /\ rawCount' = rawCount + Len(items)
    /\ bodies' = bodies + 1
    /\ toolOut' = NoTool
    /\ UNCHANGED <<config, APP_VERSION, versionFetches>>

\* raise_for_status raises httpx.HTTPStatusError (lines 212, 264-272).
PageStatusError(c, status, text) ==
    /\ call[c].pc = "fetch"
    /\ LET after == OnStatusError(call[c], status, text)
       IN /\ call' = [call EXCEPT ![c] = after]
    /\ toolOut' = NoTool
    /\ UNCHANGED <<config, APP_VERSION, caches, history, versionFetches, rawCount, bodies>>

\* client.get or response.json raises anything else (lines 211-213, 273-275).
PageOtherError(c, message) ==
    /\ call[c].pc = "fetch"
    /\ LET after == OnOtherError(call[c], message)
       IN /\ call' = [call EXCEPT ![c] = after]
    /\ toolOut' = NoTool
    /\ UNCHANGED <<config, APP_VERSION, caches, history, versionFetches, rawCount, bodies>>

\* Mutant of LinkLine: an id is resolved only while no search call has ended
\* in an error text.
LinkLine_CompletedOnly(item_id) ==
    LET slug == Get(ITEM_WEB_SLUG_CACHE, item_id) IN
    IF ~Truthy(slug) \/ \E c \in Calls : call[c].result.kind \in {"api_error", "error"}
    THEN [id |-> item_id, kind |-> "unknown", value |-> <<>>]
    ELSE [id |-> item_id, kind |-> "url", value |-> <<ITEM_BASE, slug>>]

\* One line of link's answer (lines 73-83).
LinkLine(item_id) ==
    LET slug == Get(ITEM_WEB_SLUG_CACHE, item_id) IN
    IF ~Truthy(slug)
    THEN [id |-> item_id, kind |-> "unknown", value |-> <<>>]
    ELSE [id |-> item_id, kind |-> "url", value |-> <<ITEM_BASE, slug>>]

\* One entry of description's answer (lines 100-105).
DescriptionLine(item_id) ==
    LET present == item_id \in DOMAIN ITEM_DESCRIPTION_CACHE
        cached == IF present THEN ITEM_DESCRIPTION_CACHE[item_id] ELSE <<>>
    IN IF cached # <<>> /\ Strip(cached) # <<>>
       THEN [id |-> item_id, kind |-> "description", value |-> Strip(cached)]
       ELSE [id |-> item_id, kind |-> "not_in_cache", value |-> <<>>]

\* if not item_ids or not isinstance(item_ids, list)
InvalidIds(item_ids) == ~item_ids.truthy \/ ~item_ids.isList

\* Mutant of LinkText: an unknown id gets no line.
LinkText_SkipUnknown(item_ids) ==
    IF InvalidIds(item_ids)
    THEN [op |-> "link", arg |-> item_ids, kind |-> "invalid", lines |-> <<>>]
    ELSE [op |-> "link", arg |-> item_ids, kind |-> "lines",
          lines |-> SelectSeq([i \in 1..Len(item_ids.ids) |-> LinkLine(item_ids.ids[i])],
                              LAMBDA l : l.kind = "url")]

\* The text link returns (lines 68-85).
LinkText(item_ids) ==
    IF InvalidIds(item_ids)
    THEN [op |-> "link", arg |-> item_ids, kind |-> "invalid", lines |-> <<>>]
    ELSE [op |-> "link", arg |-> item_ids, kind |-> "lines",
          lines |-> [i \in 1..Len(item_ids.ids) |-> LinkLine(item_ids.ids[i])]]

\* Mutant of DescriptionText: item_ids is validated before the mode is read.
DescriptionText_ValidateFirst(item_ids) ==
    IF InvalidIds(item_ids)
    THEN [op |-> "description", arg |-> item_ids, kind |-> "invalid", lines |-> <<>>]
    ELSE IF INCLUDE_DESCRIPTION_IN_SEARCH
    THEN [op |-> "description", arg |-> item_ids, kind |-> "disabled", lines |-> <<>>]
    ELSE [op |-> "description", arg |-> item_ids, kind |-> "lines",
          lines |-> [i \in 1..Len(item_ids.ids) |-> DescriptionLine(item_ids.ids[i])]]

\* The text description returns (lines 92-107).
DescriptionText(item_ids) ==
    IF INCLUDE_DESCRIPTION_IN_SEARCH
    THEN [op |-> "description", arg |-> item_ids, kind |-> "disabled", lines |-> <<>>]
    ELSE IF InvalidIds(item_ids)
    THEN [op |-> "description", arg |-> item_ids, kind |-> "invalid", lines |-> <<>>]
    ELSE [op |-> "description", arg |-> item_ids, kind |-> "lines",
          lines |-> [i \in 1..Len(item_ids.ids) |-> DescriptionLine(item_ids.ids[i])]]

link(item_ids) ==
    /\ \A d \in Calls : ~Busy(d)
    /\ toolOut' = LinkText(item_ids)
    /\ UNCHANGED <<config, APP_VERSION, caches, call, history, counters>>

description(item_ids) ==
    /\ \A d \in Calls : ~Busy(d)
    /\ toolOut' = DescriptionText(item_ids)
    /\ UNCHANGED <<config, APP_VERSION, caches, call, history, counters>>

----------------------------------------------------------------------------
StatusErrors == {<<"500", "server error">>}
OtherErrors == {"timed out"}
MetaErrors == {"'NoneType' object has no attribute 'get'"}

Next ==
    \/ \E v \in env.versions : PrefetchAppVersion(v)
    \/ \E c \in env.calls, q \in env.inputs : search(c, q)
    \/ \E c \in Calls, v \in env.versions : AppVersionReturns(c, v)
    \/ \E c \in Calls, items \in SeqsUpTo(env.raws, env.items), t \in env.tokens,
          sec \in Sections : PageResponse(c, items, t, sec)
    \/ \E c \in Calls, items \in SeqsUpTo(env.raws, env.items), m \in MetaErrors :
          PageBadMeta(c, items, m)
    \/ \E c \in Calls, e \in StatusErrors : PageStatusError(c, e[1], e[2])
    \/ \E c \in Calls, m \in OtherErrors : PageOtherError(c, m)

Spec == Init /\ [][Next]_vars

\* The same server with its two reading tools called between the searches.
NextTools ==
    \/ Next
    \/ \E ids \in IdInputs : link(ids)
    \/ \E ids \in IdInputs : description(ids)

SpecTools == InitTools /\ [][NextTools]_vars

\* Two search calls whose awaits overlap, as an asyncio host runs them.
InitOverlap ==
    /\ Start
    /\ INCLUDE_DESCRIPTION_IN_SEARCH
    /\ SEARCH_PAGES_TO_FETCH >= 1
    /\ env = [requests |-> OverlapRequests, items |-> OverlapItems,
              versions |-> Versions, tokens |-> Tokens,
              raws |-> {r \in RawItems : model_validate(r).id = "1" /\ r.typed},
              inputs |-> {q \in QueryInputs :
                            UsableQueries(q) \in {<<<<"a">>>>, <<<<"a">>, <<"b">>>>}},
              calls |-> Calls, overlap |-> TRUE]

\* The same server taking a second search while the first is suspended.
SpecOverlap == InitOverlap /\ [][Next]_vars

\* A pending await of call c returns: get_app_version with a version, or
\* client.get with a body, a broken body or an exception.
Answer(c) ==
    \/ \E v \in env.versions : AppVersionReturns(c, v)
    \/ \E m \in OtherErrors : PageOtherError(c, m)
    \/ \E e \in StatusErrors : PageStatusError(c, e[1], e[2])
    \/ \E items \in SeqsUpTo(env.raws, env.items), t \in env.tokens, sec \in Sections :
          PageResponse(c, items, t, sec)
    \/ \E items \in SeqsUpTo(env.raws, env.items), m \in MetaErrors :
          PageBadMeta(c, items, m)

InitLive ==
    /\ Start
    /\ env = [requests |-> LiveRequests, items |-> LiveItems,
              versions |-> {FALLBACK_VERSION}, tokens |-> {None, "t1"},
              raws |-> {r \in RawItems : model_validate(r).web_slug \in {"s1", "s2"}},
              inputs |-> QueryInputs,
              calls |-> {1}, overlap |-> FALSE]

\* The server where every await of a call returns in the end: the network
\* answers or the transport raises.
SpecLive == InitLive /\ [][Next]_vars /\ \A c \in Calls : WF_vars(Answer(c))

----------------------------------------------------------------------------
\* What the claims are stated with.

Done(c) == call[c].pc = "done"
Blocks_(c) == call[c].result.blocks
Seen(c) == call[c].processed

\* The place in a call's processing order where an id first occurs.
FirstIndex(processed, id) ==
    CHOOSE i \in 1..Len(processed) :
        /\ processed[i].item.id = id
        /\ \A j \in 1..(i - 1) : processed[j].item.id # id

Occurs(processed, id) == \E i \in 1..Len(processed) : processed[i].item.id = id

\* C1: the item ids rendered in the text a search call returns are pairwise
\* distinct, whatever the queries and the page responses were.
C1_DistinctIds ==
    \A c \in Calls : \A i, j \in 1..Len(Blocks_(c)) :
        i # j => Blocks_(c)[i].id # Blocks_(c)[j].id

\* A finished call that rendered an id two of its queries had returned.
C1_Witness ==
    \E c \in Calls :
        /\ Done(c)
        /\ \E k \in 1..Len(Blocks_(c)), i, j \in 1..Len(Seen(c)) :
              /\ Seen(c)[i].item.id = Blocks_(c)[k].id
              /\ Seen(c)[j].item.id = Blocks_(c)[k].id
              /\ Seen(c)[i].query # Seen(c)[j].query

\* C2: the block rendered for an id is the rendering of the item of that id's
\* first occurrence in processing order; no later occurrence replaces it.
C2_FirstOccurrenceRendered ==
    \A c \in Calls : \A k \in 1..Len(Blocks_(c)) :
        /\ Occurs(Seen(c), Blocks_(c)[k].id)
        /\ <<Blocks_(c)[k]>> =
              format_item_markdown(
                  Seen(c)[FirstIndex(Seen(c), Blocks_(c)[k].id)].item)

\* A finished call that rendered an id returned twice with different contents.
C2_Witness ==
    \E c \in Calls :
        /\ Done(c)
        /\ \E k \in 1..Len(Blocks_(c)), i, j \in 1..Len(Seen(c)) :
              /\ i < j
              /\ Seen(c)[i].item.id = Blocks_(c)[k].id
              /\ Seen(c)[j].item.id = Blocks_(c)[k].id
              /\ format_item_markdown(Seen(c)[i].item)
                    # format_item_markdown(Seen(c)[j].item)
              /\ format_item_markdown(Seen(c)[j].item) # <<>>

\* C3, as claimed: ids are rendered in the order of their first occurrences in
\* processing order, also when a query text occurs twice in the list.
C3_FirstOccurrenceOrder ==
    \A c \in Calls : \A k, l \in 1..Len(Blocks_(c)) :
        k < l => FirstIndex(Seen(c), Blocks_(c)[k].id)
                    < FirstIndex(Seen(c), Blocks_(c)[l].id)

Log(c) == call[c].log

\* The requests a call issued for its query number q.
RequestsOf(c, q) == {i \in 1..Len(Log(c)) : Log(c)[i].query = q}

\* A body that ends its query's pagination: another section, or no token.
Stops(entry) ==
    /\ entry.outcome = "ok"
    /\ entry.meta_section # ORGANIC \/ ~Truthy(entry.meta_next_page)

\* C4: a query gets at most SEARCH_PAGES_TO_FETCH page requests, and none
\* after a body whose sentinel is not the organic one or that has no token.
C4_PaginationStops ==
    \A c \in Calls :
        /\ \A q \in 1..Len(call[c].queries) :
              Cardinality(RequestsOf(c, q)) <= SEARCH_PAGES_TO_FETCH
        /\ \A i, j \in 1..Len(Log(c)) :
              Stops(Log(c)[i]) /\ i < j => Log(c)[j].query # Log(c)[i].query

\* One call in which a query stopped on the sentinel while it held a token and
\* had pages left, and a later query went on to the page cap, whose body still
\* offered a further page.
C4_Witness ==
    \E c \in Calls : \E i, j \in 1..Len(Log(c)) :
        /\ Done(c)
        /\ Log(c)[i].page < SEARCH_PAGES_TO_FETCH
        /\ Log(c)[i].outcome = "ok"
        /\ Log(c)[i].meta_section # ORGANIC
        /\ Truthy(Log(c)[i].meta_next_page)
        /\ Log(c)[j].query > Log(c)[i].query
        /\ Log(c)[j].page = SEARCH_PAGES_TO_FETCH
        /\ Log(c)[j].outcome = "ok"
        /\ ~Stops(Log(c)[j])

Failed(entry) == entry.outcome \in {"status", "error"}

\* C5: a failed page fetch is the last request of its call, and the call
\* returns the one error text built from the failure and from nothing else.
C5_FailureAborts ==
    \A c \in Calls : \A i \in 1..Len(Log(c)) :
        Failed(Log(c)[i]) =>
            /\ i = Len(Log(c))
            /\ Done(c)
            /\ call[c].result =
                  IF Log(c)[i].outcome = "status"
                  THEN Text("api_error", Log(c)[i].status, Log(c)[i].text, <<>>, <<>>)
                  ELSE Text("error", "", Log(c)[i].text, <<>>, <<>>)

\* A call whose second query failed with a status error after its first query
\* had collected an item that would have been rendered.
C5_Witness ==
    \E c \in Calls :
        /\ Done(c)
        /\ call[c].result.kind = "api_error"
        /\ Log(c)[Len(Log(c))].query < Len(call[c].queries)
        /\ \E i \in 1..Len(Seen(c)) :
              /\ Seen(c)[i].query < Log(c)[Len(Log(c))].query
              /\ format_item_markdown(Seen(c)[i].item) # <<>>

----------------------------------------------------------------------------
\* The caches against the items processed so far.

Max(S) == CHOOSE x \in S : \A y \in S : y <= x

\* The places of history where an item of this id stands.
Sightings(id) == {i \in 1..Len(history) : history[i].id = id}

\* The slug of the latest item of this id that carried one; "" when none did.
LastSlug(id) ==
    LET S == {i \in Sightings(id) : history[i].web_slug # ""}
    IN IF S = {} THEN "" ELSE history[Max(S)].web_slug

\* The description of the latest item of this id that carried one.
LastDescription(id) ==
    LET S == {i \in Sightings(id) : history[i].description # <<>>}
    IN IF S = {} THEN <<>> ELSE history[Max(S)].description

\* What the caches hold for an id, a missing key read as the empty text.
CachedSlug(id) ==
    IF id \in DOMAIN ITEM_WEB_SLUG_CACHE THEN ITEM_WEB_SLUG_CACHE[id] ELSE ""

CachedDescription(id) ==
    IF id \in DOMAIN ITEM_DESCRIPTION_CACHE THEN ITEM_DESCRIPTION_CACHE[id] ELSE <<>>

Completed(c) == Done(c) /\ call[c].result.kind \in {"items", "no_results"}

\* Every rendered block is the rendering of a processed item that is not reserved.
NoReservedRendered(c) ==
    \A k \in 1..Len(Blocks_(c)) : \E i \in 1..Len(Seen(c)) :
        /\ ~Seen(c)[i].item.reserved
        /\ <<Blocks_(c)[k]>> = format_item_markdown(Seen(c)[i].item)

\* C6, as claimed: after a completed call no reserved item is rendered and the
\* caches map the id of every reserved item it processed to that item's slug
\* and description.
C6_ReservedCachedAsIs ==
    \A c \in Calls : Completed(c) =>
        /\ NoReservedRendered(c)
        /\ \A i \in 1..Len(Seen(c)) :
              LET item == Seen(c)[i].item IN
              item.reserved /\ item.id # "" =>
                  /\ CachedSlug(item.id) = item.web_slug
                  /\ CachedDescription(item.id) = item.description

\* No later item of the call had this id and a value in this field.
NotOverwritten(c, i, field, empty) ==
    \A j \in (i + 1)..Len(Seen(c)) :
        Seen(c)[j].item.id # Seen(c)[i].item.id \/ Seen(c)[j].item[field] = empty

\* C6, amended: after a completed call no reserved item is rendered; the id of
\* a reserved item that carried a slug is a key of the slug cache, and maps to
\* that very slug unless a later item of the call with the same id carried a
\* slug too; likewise for a description it carried.
C6_ReservedStillCached ==
    \A c \in Calls : Completed(c) =>
        /\ NoReservedRendered(c)
        /\ \A i \in 1..Len(Seen(c)) :
              LET item == Seen(c)[i].item IN
              item.reserved /\ item.id # "" =>
                  /\ item.web_slug # "" =>
                        /\ item.id \in DOMAIN ITEM_WEB_SLUG_CACHE
                        /\ ITEM_WEB_SLUG_CACHE[item.id] # ""
                        /\ NotOverwritten(c, i, "web_slug", "") =>
                              ITEM_WEB_SLUG_CACHE[item.id] = item.web_slug
                  /\ item.description # <<>> =>
                        /\ item.id \in DOMAIN ITEM_DESCRIPTION_CACHE
                        /\ NotOverwritten(c, i, "description", <<>>) =>
                              ITEM_DESCRIPTION_CACHE[item.id] = item.description

\* A completed call that rendered an item and left out a reserved one, whose
\* slug the cache holds.
C6_Witness ==
    \E c \in Calls :
        /\ Completed(c)
        /\ Len(Blocks_(c)) = 1
        /\ \E i \in 1..Len(Seen(c)) :
              /\ Seen(c)[i].item.reserved
              /\ Seen(c)[i].item.id # Blocks_(c)[1].id
              /\ Seen(c)[i].item.web_slug # ""
              /\ CachedSlug(Seen(c)[i].item.id) = Seen(c)[i].item.web_slug

\* C7, as claimed: the cached slug and description of an id are those of the
\* most recently processed item with that id.
C7_LastItemCached ==
    \A id \in Ids : Sightings(id) # {} =>
        /\ CachedSlug(id) = history[Max(Sightings(id))].web_slug
        /\ CachedDescription(id) = history[Max(Sightings(id))].description

\* C7, amended: the cached slug of an id is that of the most recently
\* processed item with that id that carried a slug, and the cached description
\* that of the most recent one that carried a description; an item lacking a
\* field leaves what an earlier item stored for it.
C7_LastValueCached ==
    \A id \in Ids :
        /\ CachedSlug(id) = LastSlug(id)
        /\ CachedDescription(id) = LastDescription(id)

\* A second search call has overwritten the slug and the description that a
\* first call had cached for an id.
C7_Witness ==
    \E c \in Calls : \E i, j \in 1..Len(history) :
        /\ i < j
        /\ Len(Seen(c)) < j
        /\ history[i].id = history[j].id
        /\ history[i].id # ""
        /\ history[j].web_slug \notin {"", history[i].web_slug}
        /\ history[j].description \notin {<<>>, history[i].description}
        /\ history[i].web_slug # ""
        /\ CachedSlug(history[j].id) = history[j].web_slug

----------------------------------------------------------------------------
\* The tools on invalid input.

\* The query argument holds no str with a character that is not blank.
NoUsableQuery(query) ==
    IF query.isStr THEN Strip(query.s) = <<>>
    ELSE \A i \in 1..Len(query.list) :
            ~query.list[i].isStr \/ Strip(query.list[i].s) = <<>>

\* C8, as claimed: a search with a page count below 1 or without a usable
\* query, and a link or description call with an empty or non-list argument,
\* return a descriptive text, issue no request and leave both caches alone.
C8_InvalidInputIsInert ==
    [][ /\ \A c \in Calls, q \in QueryInputs :
             (SEARCH_PAGES_TO_FETCH < 1 \/ NoUsableQuery(q)) /\ search(c, q) =>
                 /\ call'[c].pc = "done"
                 /\ call'[c].result.kind \in {"invalid_pages", "invalid_query"}
                 /\ call'[c].log = <<>>
                 /\ UNCHANGED <<APP_VERSION, caches, versionFetches>>
        /\ \A ids \in IdInputs :
             InvalidIds(ids) /\ (link(ids) \/ description(ids)) =>
                 /\ toolOut'.kind \in {"invalid", "disabled"}
                 /\ UNCHANGED <<APP_VERSION, caches, call, versionFetches>>
      ]_vars

----------------------------------------------------------------------------
\* The reading tools.

ValidLink == toolOut.op = "link" /\ ~InvalidIds(toolOut.arg)
ValidDescription == toolOut.op = "description" /\ ~InvalidIds(toolOut.arg)

Unknown(id) == [id |-> id, kind |-> "unknown", value |-> <<>>]
Url(id, slug) == [id |-> id, kind |-> "url", value |-> <<ITEM_BASE, slug>>]
NotInCache(id) == [id |-> id, kind |-> "not_in_cache", value |-> <<>>]
Described(id, d) == [id |-> id, kind |-> "description", value |-> d]

\* C9, as claimed: link answers one line per id, in input order: the URL of
\* the cached slug for an id a prior search processed, Unknown id for an id no
\* prior search saw.
C9_LinkOfProcessed ==
    ValidLink =>
        /\ Len(toolOut.lines) = Len(toolOut.arg.ids)
        /\ \A i \in 1..Len(toolOut.lines) :
              LET id == toolOut.arg.ids[i] IN
              toolOut.lines[i] = IF Sightings(id) # {} THEN Url(id, CachedSlug(id))
                                 ELSE Unknown(id)

\* C9, amended: link answers one line per id, in input order: the URL of the
\* slug of the latest item a prior search processed with that id and a slug,
\* and Unknown id for every other id: one never seen, or seen without a slug.
C9_LinkOfCached ==
    ValidLink =>
        /\ toolOut.kind = "lines"
        /\ Len(toolOut.lines) = Len(toolOut.arg.ids)
        /\ \A i \in 1..Len(toolOut.lines) :
              LET id == toolOut.arg.ids[i] IN
              toolOut.lines[i] = IF LastSlug(id) # "" THEN Url(id, LastSlug(id))
                                 ELSE Unknown(id)

\* link, called after an aborted search, answers Unknown id for an id that
\* search had processed without a slug, then the URL of an id it had cached.
C9_Witness ==
    /\ ValidLink
    /\ Len(toolOut.lines) = 2
    /\ toolOut.lines[1].kind = "unknown"
    /\ Sightings(toolOut.lines[1].id) # {}
    /\ toolOut.lines[2].kind = "url"
    /\ \E c \in Calls : Done(c) /\ call[c].result.kind \in {"api_error", "error"}

\* C10, as claimed: with descriptions included in search, description answers
\* the Tool disabled text whatever it is given; otherwise it answers, per id,
\* the cached description, or Description not in cache.
C10_DescriptionAsCached ==
    toolOut.op = "description" =>
        IF INCLUDE_DESCRIPTION_IN_SEARCH
        THEN toolOut.kind = "disabled" /\ toolOut.lines = <<>>
        ELSE ValidDescription =>
                /\ Len(toolOut.lines) = Len(toolOut.arg.ids)
                /\ \A i \in 1..Len(toolOut.lines) :
                      LET id == toolOut.arg.ids[i] IN
                      toolOut.lines[i] =
                          IF id \in DOMAIN ITEM_DESCRIPTION_CACHE
                          THEN Described(id, ITEM_DESCRIPTION_CACHE[id])
                          ELSE NotInCache(id)

\* C10, amended: with descriptions included in search, description answers
\* the Tool disabled text whatever it is given; otherwise it rejects an empty
\* or non-list argument and answers, per id, the cached description stripped
\* of the blanks around it, or Description not in cache when the id has no
\* cached description or one of blanks only.
C10_DescriptionStripped ==
    toolOut.op = "description" =>
        IF INCLUDE_DESCRIPTION_IN_SEARCH
        THEN toolOut.kind = "disabled" /\ toolOut.lines = <<>>
        ELSE IF ~ValidDescription THEN toolOut.kind = "invalid" /\ toolOut.lines = <<>>
        ELSE /\ toolOut.kind = "lines"
             /\ Len(toolOut.lines) = Len(toolOut.arg.ids)
             /\ \A i \in 1..Len(toolOut.lines) :
                   LET id == toolOut.arg.ids[i] IN
                   toolOut.lines[i] =
                       IF Strip(LastDescription(id)) # <<>>
                       THEN Described(id, Strip(LastDescription(id)))
                       ELSE NotInCache(id)

\* description, called with ids whose descriptions are cached while
\* descriptions are included in search, answers Tool disabled.
C10_Witness ==
    /\ toolOut.op = "description"
    /\ INCLUDE_DESCRIPTION_IN_SEARCH
    /\ toolOut.kind = "disabled"
    /\ ~InvalidIds(toolOut.arg)
    /\ \A i \in 1..Len(toolOut.arg.ids) :
          toolOut.arg.ids[i] \in DOMAIN ITEM_DESCRIPTION_CACHE

----------------------------------------------------------------------------
\* What a completed call returns.

\* The ids a call has processed, the empty one left out.
SeenIds(c) == {Seen(c)[i].item.id : i \in 1..Len(Seen(c))} \ {""}

\* The item a call keeps for an id: the first it processed with that id.
Canonical(c, id) == Seen(c)[FirstIndex(Seen(c), id)].item

\* The ids whose canonical item is not reserved.
LiveIds(c) == {id \in SeenIds(c) : ~Canonical(c, id).reserved}

\* C11: a call that completes without a fetch failure returns the No results
\* found text naming its queries in input order when no id is left whose
\* canonical item is not reserved, and otherwise a text of exactly one block
\* for each such id.
C11_NoResultsOrOneBlockPerId ==
    \A c \in Calls : Completed(c) =>
        IF LiveIds(c) = {}
        THEN call[c].result = Text("no_results", "", "", call[c].queries, <<>>)
        ELSE /\ call[c].result.kind = "items"
             /\ Len(Blocks_(c)) = Cardinality(LiveIds(c))
             /\ {Blocks_(c)[k].id : k \in 1..Len(Blocks_(c))} = LiveIds(c)

\* A completed call over two queries whose only id was reserved: it returned
\* the No results found text for both queries.
C11_Witness ==
    \E c \in Calls :
        /\ Completed(c)
        /\ call[c].result.kind = "no_results"
        /\ Len(call[c].result.queries) = 2
        /\ call[c].result.queries[1] # call[c].result.queries[2]
        /\ SeenIds(c) # {}

----------------------------------------------------------------------------
\* The caches over the life of the process.

\* C12: both caches are empty at process start, and no step of a search, of
\* an aborted search, of link or of description removes a key from either:
\* the keys of each cache in a later state include those of an earlier one.
C12_CachesGrow ==
    /\ ITEM_WEB_SLUG_CACHE = EmptyDict
    /\ ITEM_DESCRIPTION_CACHE = EmptyDict
    /\ [][ /\ DOMAIN ITEM_WEB_SLUG_CACHE \subseteq DOMAIN ITEM_WEB_SLUG_CACHE'
           /\ DOMAIN ITEM_DESCRIPTION_CACHE \subseteq DOMAIN ITEM_DESCRIPTION_CACHE'
         ]_vars

\* description is called after an aborted search, the description cache
\* holding an id of which a later item without a description was processed.
C12_Witness ==
    /\ toolOut.op = "description"
    /\ \E c \in Calls : Done(c) /\ call[c].result.kind \in {"api_error", "error"}
    /\ \E i, j \in 1..Len(history) :
          /\ i < j
          /\ history[i].id = history[j].id
          /\ history[i].description # <<>>
          /\ history[j].description = <<>>
          /\ history[i].id \in DOMAIN ITEM_DESCRIPTION_CACHE

----------------------------------------------------------------------------
\* The app version.

\* C13, as claimed: get_app_version is invoked at most once in the life of
\* the process, also when search calls overlap, and every page request of
\* every call carries the one cached value.
C13_VersionFetchedOnce ==
    /\ versionFetches <= 1
    /\ \A c, d \in Calls : \A i \in 1..Len(Log(c)), j \in 1..Len(Log(d)) :
          /\ Log(c)[i].appversion = Log(d)[j].appversion
          /\ Log(c)[i].appversion = APP_VERSION

----------------------------------------------------------------------------
\* Objects that fail validation.

HasInvalid(items) == \E k \in 1..Len(items) : ModelValidateFails(items[k])

\* The objects of a page that pass validation, validated, in page order.
ValidItems(items) ==
    LET valid == SelectSeq(items, LAMBDA r : ~ModelValidateFails(r))
    IN [k \in 1..Len(valid) |-> model_validate(valid[k])]

\* The items a call has processed from page p of its query number q.
PageSeen(c, q, p) ==
    LET on == SelectSeq(Seen(c), LAMBDA x : x.query = q /\ x.page = p)
    IN [k \in 1..Len(on) |-> on[k].item]

\* The slugs and descriptions that only objects failing validation carry.
InvalidOnlySlugs ==
    {r.obj.web_slug : r \in {x \in RawItems : ModelValidateFails(x)}}
        \ {model_validate(r).web_slug : r \in {x \in RawItems : ~ModelValidateFails(x)}}

InvalidOnlyDescriptions ==
    {r.obj.description : r \in {x \in RawItems : ModelValidateFails(x)}}
        \ {model_validate(r).description : r \in {x \in RawItems : ~ModelValidateFails(x)}}

\* The request a call issues after the body recorded at place i of its log,
\* as the pagination rule alone decides it.
GoesOn(c, i) ==
    LET e == Log(c)[i] IN
    IF ~Stops(e) /\ e.page < SEARCH_PAGES_TO_FETCH
    THEN /\ i < Len(Log(c))
         /\ Log(c)[i + 1].query = e.query
         /\ Log(c)[i + 1].page = e.page + 1
    ELSE IF e.query < Len(call[c].queries)
    THEN /\ i < Len(Log(c))
         /\ Log(c)[i + 1].query = e.query + 1
         /\ Log(c)[i + 1].page = 1
    ELSE i = Len(Log(c)) /\ Completed(c)

\* C14: an object of a page that fails validation is skipped: nothing of it
\* is cached, the call's items of that page are the page's other objects in
\* page order, the request that follows the page is the one the pagination
\* rule asks for, and the call returns an error text only for a failed fetch
\* or a broken body, recorded as such in its log.
C14_ParseFailureSkipped ==
    /\ \A id \in DOMAIN ITEM_WEB_SLUG_CACHE :
          ITEM_WEB_SLUG_CACHE[id] \notin InvalidOnlySlugs
    /\ \A id \in DOMAIN ITEM_DESCRIPTION_CACHE :
          ITEM_DESCRIPTION_CACHE[id] \notin InvalidOnlyDescriptions
    /\ \A c \in Calls : \A i \in 1..Len(Log(c)) :
          HasInvalid(Log(c)[i].items) =>
              /\ PageSeen(c, Log(c)[i].query, Log(c)[i].page)
                    = ValidItems(Log(c)[i].items)
              /\ Log(c)[i].outcome = "ok" => GoesOn(c, i)
              /\ Done(c) /\ ~Completed(c) => Failed(Log(c)[Len(Log(c))])

\* A completed call whose first page held an object failing validation ahead
\* of a valid one: the valid one is rendered, and a further request followed.
C14_Witness ==
    \E c \in Calls :
        /\ Completed(c)
        /\ Len(Log(c)) >= 2
        /\ Len(Log(c)[1].items) = 2
        /\ ModelValidateFails(Log(c)[1].items[1])
        /\ ~ModelValidateFails(Log(c)[1].items[2])
        /\ Len(Blocks_(c)) = 1
        /\ Blocks_(c)[1].id = model_validate(Log(c)[1].items[2]).id

----------------------------------------------------------------------------
\* Continuation tokens.

\* C15: the request for page 1 of a query carries no token, and the request
\* for a later page follows the body of the page before it, of the same query
\* of the same call, and carries the token of that body.
C15_TokenOfPreviousPage ==
    \A c \in Calls : \A i \in 1..Len(Log(c)) :
        LET e == Log(c)[i] IN
        IF e.page = 1 THEN e.next_page = None
        ELSE /\ i > 1
             /\ Log(c)[i - 1].query = e.query
             /\ Log(c)[i - 1].page = e.page - 1
             /\ Log(c)[i - 1].outcome = "ok"
             /\ e.next_page = Log(c)[i - 1].meta_next_page
             /\ Truthy(e.next_page)

\* Two overlapping calls are each at page 2 of a query with the token of
\* their own page 1, the two tokens differing.
C15_Witness ==
    \E c, d \in Calls :
        /\ c # d
        /\ Log(c) # <<>> /\ Log(d) # <<>>
        /\ Log(c)[Len(Log(c))].page = 2
        /\ Log(d)[Len(Log(d))].page = 2
        /\ Log(c)[Len(Log(c))].next_page # Log(d)[Len(Log(d))].next_page
        /\ Busy(c) /\ Busy(d)

----------------------------------------------------------------------------
\* The page on which the section changes.

SectionChanged(entry) == entry.outcome = "ok" /\ entry.meta_section # ORGANIC

\* C16: the items of a page whose sentinel is not the organic one are kept
\* like those of any page: they are the call's items of that page, their
\* slugs and descriptions are cached, and a completed call renders the id of
\* each unless its canonical item is reserved; the query gets no further
\* request, and the call goes on with the next query if there is one.
C16_LastPageKept ==
    \A c \in Calls : \A i \in 1..Len(Log(c)) :
        LET e == Log(c)[i]
            kept == ValidItems(e.items)
        IN SectionChanged(e) =>
            /\ PageSeen(c, e.query, e.page) = kept
            /\ \A k \in 1..Len(kept) : kept[k].id # "" =>
                  /\ kept[k].web_slug # "" =>
                        /\ kept[k].id \in DOMAIN ITEM_WEB_SLUG_CACHE
                        /\ ITEM_WEB_SLUG_CACHE[kept[k].id] = LastSlug(kept[k].id)
                  /\ kept[k].description # <<>> =>
                        /\ kept[k].id \in DOMAIN ITEM_DESCRIPTION_CACHE
                        /\ ITEM_DESCRIPTION_CACHE[kept[k].id]
                              = LastDescription(kept[k].id)
                  /\ Completed(c) /\ ~Canonical(c, kept[k].id).reserved =>
                        \E b \in 1..Len(Blocks_(c)) : Blocks_(c)[b].id = kept[k].id
            /\ \A j \in (i + 1)..Len(Log(c)) : Log(c)[j].query # e.query
            /\ GoesOn(c, i)

\* A completed call whose first query stopped on the sentinel of its page 1,
\* with a token and pages left: the item of that page is rendered and cached,
\* and the second query was requested.
C16_Witness ==
    \E c \in Calls :
        /\ Completed(c)
        /\ Len(Log(c)) >= 2
        /\ SectionChanged(Log(c)[1])
        /\ Truthy(Log(c)[1].meta_next_page)
        /\ SEARCH_PAGES_TO_FETCH > 1
        /\ Log(c)[2].query = 2
        /\ Len(Log(c)[1].items) = 1
        /\ Len(Blocks_(c)) >= 1
        /\ Blocks_(c)[1].id = ValidItems(Log(c)[1].items)[1].id
        /\ Blocks_(c)[1].id \in DOMAIN ITEM_WEB_SLUG_CACHE

----------------------------------------------------------------------------
\* Items without an id.

\* C17: the empty string is a key of neither cache and of no call's
\* deduped_items, and no rendered block has it as its id.
C17_EmptyIdAbsent ==
    /\ "" \notin DOMAIN ITEM_WEB_SLUG_CACHE
    /\ "" \notin DOMAIN ITEM_DESCRIPTION_CACHE
    /\ \A c \in Calls :
          /\ "" \notin DOMAIN call[c].deduped_items
          /\ \A k \in 1..Len(Blocks_(c)) : Blocks_(c)[k].id # ""

\* A call is suspended after a page that held an item with a slug, a
\* description and no id ahead of an item with an id.
C17_Witness ==
    \E c \in Calls : \E i, j \in 1..Len(Seen(c)) :
        /\ Busy(c)
        /\ i < j
        /\ Seen(c)[i].item.id = ""
        /\ Seen(c)[i].item.web_slug # ""
        /\ Seen(c)[i].item.description # <<>>
        /\ Seen(c)[j].item.id \in DOMAIN call[c].deduped_items
        /\ Seen(c)[j].item.id \in DOMAIN ITEM_WEB_SLUG_CACHE

----------------------------------------------------------------------------
\* What an aborted call leaves behind.

Aborted(c) == Done(c) /\ call[c].result.kind \in {"api_error", "error"}

\* The slug a call wrote last for an id; "" when it wrote none.
LastSlugIn(c, id) ==
    LET S == {i \in 1..Len(Seen(c)) :
                Seen(c)[i].item.id = id /\ Seen(c)[i].item.web_slug # ""}
    IN IF S = {} THEN "" ELSE Seen(c)[Max(S)].item.web_slug

\* The description a call wrote last for an id; <<>> when it wrote none.
LastDescriptionIn(c, id) ==
    LET S == {i \in 1..Len(Seen(c)) :
                Seen(c)[i].item.id = id /\ Seen(c)[i].item.description # <<>>}
    IN IF S = {} THEN <<>> ELSE Seen(c)[Max(S)].item.description

\* C18: once a call has returned an error text, every cache entry it wrote
\* before the failure is present with the value the call wrote last, and a
\* link call made then answers the URL of each such id.
C18_AbortKeepsCache ==
    \A c \in Calls : Aborted(c) =>
        \A id \in SeenIds(c) :
            /\ LastSlugIn(c, id) # "" =>
                  /\ id \in DOMAIN ITEM_WEB_SLUG_CACHE
                  /\ ITEM_WEB_SLUG_CACHE[id] = LastSlugIn(c, id)
                  /\ ValidLink =>
                        \A i \in 1..Len(toolOut.arg.ids) :
                            toolOut.arg.ids[i] = id =>
                                toolOut.lines[i] = Url(id, LastSlugIn(c, id))
            /\ LastDescriptionIn(c, id) # <<>> =>
                  /\ id \in DOMAIN ITEM_DESCRIPTION_CACHE
                  /\ ITEM_DESCRIPTION_CACHE[id] = LastDescriptionIn(c, id)

\* link is called after a search whose second request failed with a status
\* error, and answers the URL of an id the first page had cached.
C18_Witness ==
    \E c \in Calls :
        /\ Aborted(c)
        /\ call[c].result.kind = "api_error"
        /\ Len(Log(c)) = 2
        /\ ValidLink
        /\ \E i \in 1..Len(toolOut.lines) :
              /\ toolOut.lines[i].kind = "url"
              /\ LastSlugIn(c, toolOut.lines[i].id) # ""

----------------------------------------------------------------------------
\* A call on its own.

RECURSIVE Replay(_, _)
\* The frame of a call that is given the bodies of this log and nothing else:
\* no other call, empty caches.
Replay(log, frame) ==
    IF log = <<>> THEN frame
    ELSE LET e == Head(log)
             q == frame.queries[e.query]
             acc == ProcessItems(e.items,
                       [slugs |-> EmptyDict, descs |-> EmptyDict,
                        collected |-> frame.items_by_query[q],
                        deduped |-> frame.deduped_items, seen |-> <<>>])
         IN Replay(Tail(log),
                   [frame EXCEPT !.items_by_query = Put(@, q, acc.collected),
                                 !.deduped_items = acc.deduped])

\* The text a call returns when it runs alone and gets the answers of its log.
Alone(c) ==
    LET last == Log(c)[Len(Log(c))] IN
    IF last.outcome = "status"
    THEN Text("api_error", last.status, last.text, <<>>, <<>>)
    ELSE IF last.outcome = "error"
    THEN Text("error", "", last.text, <<>>, <<>>)
    ELSE Render(Replay(Log(c),
                       [queries |-> call[c].queries,
                        items_by_query |-> [q \in Range(call[c].queries) |-> <<>>],
                        deduped_items |-> EmptyDict]))

\* C19: the text a search call returns is the one it returns when it runs
\* alone and is given the same page responses, whatever another call did
\* while it was suspended.
C19_CallsIsolated ==
    \A c \in Calls : Done(c) /\ Log(c) # <<>> => call[c].result = Alone(c)

\* While a call that has collected an item of an id is suspended in its next
\* request, another call has collected a different item of that id and has
\* returned a text that renders it.
C19_Witness ==
    \E c, d \in Calls :
        /\ Busy(c)
        /\ Completed(d)
        /\ Len(Seen(c)) = 1 /\ Len(Seen(d)) = 1
        /\ Seen(c)[1].item.id = Seen(d)[1].item.id
        /\ Seen(c)[1].item # Seen(d)[1].item
        /\ history = <<Seen(c)[1].item, Seen(d)[1].item>>
        /\ Blocks_(d) = format_item_markdown(Seen(d)[1].item)
        /\ Blocks_(d) # format_item_markdown(Seen(c)[1].item)
        /\ Blocks_(d) # <<>>

----------------------------------------------------------------------------
\* Termination.

\* C20: a call over n usable queries issues at most n times
\* SEARCH_PAGES_TO_FETCH page requests, and, every request being answered in
\* the end, returns the list of items, the No results found text or an error
\* text.
C20_Terminates ==
    /\ [](\A c \in Calls :
            Len(Log(c)) <= Len(call[c].queries) * SEARCH_PAGES_TO_FETCH)
    /\ \A c \in Calls :
          Busy(c) ~> (Done(c) /\ call[c].result.kind \in
                         {"items", "no_results", "api_error", "error"})

\* A call over two queries has returned its items after as many requests as
\* the page count allows.
C20_Witness ==
    \E c \in Calls :
        /\ Done(c)
        /\ call[c].result.kind = "items"
        /\ Len(call[c].queries) = 2
        /\ Len(Log(c)) = Len(call[c].queries) * SEARCH_PAGES_TO_FETCH

====
